---- MODULE Spec2Model ----
(***************************************************************************)
(* Model of wiex (src/index.ts): the exported function wiex() and the      *)
(* event handlers it attaches to the lookup process (`where`) and to the   *)
(* target child process.                                                   *)
(*                                                                         *)
(* JavaScript runs every callback to completion, so the synchronous body   *)
(* of wiex() is one action and every event handler is one action.  The     *)
(* events themselves (which ones fire, with which code, in which order)    *)
(* are chosen by the environment.  The Node runtime is modelled where the  *)
(* code relies on it: process.exit() stops the host at once, a promise     *)
(* rejected without a handler either only warns or ends the host with      *)
(* status 1 (the runtime's unhandled-rejections mode), and an 'error'      *)
(* event without a listener ends the host with status 1.                   *)
(***************************************************************************)
EXTENDS Integers, Sequences, FiniteSets, TLC

\* ---------------------------------------------------------------- bounds
\* number of successive wiex() invocations explored
MaxInvocations == 2
\* number of chunks the child writes to each of its output streams
MaxChunks == 2

\* ---------------------------------------------------------- JS values
\* `null` / `undefined` where a number is expected (exit codes, exitCode)
Null == -1

\* an environment variable that is not set
Undefined == [t |-> "undefined", s |-> <<>>]
\* an environment variable holding the string s (a sequence of characters)
Str(s) == [t |-> "string", s |-> s]

\* conversion of a value inside a template literal: `${v}`
TemplateString(v) ==
  IF v.t = "undefined" THEN <<"u", "n", "d", "e", "f", "i", "n", "e", "d">> ELSE v.s

Falsy_OnlyUndefined(v) == v.t = "undefined"
\* `!v` for a string-or-undefined value
Falsy(v) == v.t = "undefined" \/ v.s = <<>>

\* ------------------------------------------------------ input domains
Commands == {"cargo.exe", "missing.exe"}
Pids == {7, 8}
\* exit codes a process can report (non-null)
ExitCodes == {0, 1, 3}
PathValues == {Undefined, Str(<<"a">>), Str(<<"a", ":", "b">>)}
WiexPathValues == {Undefined, Str(<<>>), Str(<<"w">>)}
HomeValue == Str(<<"h">>)
RejectionModes == {"warn", "throw"}

VARIABLES
  env,          \* process.env of the host
  inheritedEnv, \* history: process.env when the host started
  exitCode,     \* process.exitCode of the host (Null while never set)
  terminated,   \* the host process has ended (process.exit or a crash)
  unhandledRejections, \* runtime mode for rejections nobody handles
  invocations,  \* number of wiex() calls made so far
  command,      \* arguments of the current call
  strict,
  verbose,
  promise,      \* the promise returned by the current call
  lookup,       \* the `where` process: "none", "running", "closed"
  proc,         \* the target child: "none", "running"
  pid,
  childEnv,     \* env option the child was spawned with
  exited,       \* the child's 'exit' event has been handled
  disconnected, \* the child's 'disconnect' event has been handled
  closed,       \* the child's 'close' event has been handled
  log,          \* lines received by the logger of the current call
  detached,     \* promises created inside the handlers, with their state
  handled,      \* history: events handled during the current call
  setup,        \* history: steps taken by the synchronous body of the call
  written,      \* chunks the child has written to its stdout and stderr
  sink,         \* chunks received by outStream and errStream
  pair,         \* a strict and a lenient run fed the same events
  argv,         \* process.argv.slice(2)
  cli           \* what cli() did with argv

vars == <<env, inheritedEnv, exitCode, terminated, unhandledRejections,
          invocations, command, strict, verbose, promise, lookup, proc, pid,
          childEnv, exited, disconnected, closed, log, detached, handled,
          setup, written, sink, pair, argv, cli>>

hostVars == <<env, inheritedEnv, unhandledRejections>>
callVars == <<invocations, command, strict, verbose, pid, childEnv>>
relayVars == <<written, sink>>
\* state no event handler of wiex() touches
sideVars == <<setup, pair, argv, cli>>

\* ------------------------------------------------------------ messages
WiexPathNotSetMessage == "$WIEX_PATH is not set, so wiex not expand $PATH"
commandNotExistErrorMessage(cmd) == "Error: " \o cmd \o " not found"
ExitCodeUnknownMessage == "exit code is unknown"
DisconnectedMessage(p) == "process " \o ToString(p) \o " disconnected."
ClosedMessage(p) == "process " \o ToString(p) \o " closed."

Line(level, message) == [level |-> level, message |-> message]
Event(ev, code) == [ev |-> ev, code |-> code]

\* --------------------------------------------------- severity policy
errorIfStrictOrWarn_AlwaysError(s) == "error"
\* logger.errorIfStrictOrWarn: the level the ambiguous outcomes are logged at
errorIfStrictOrWarn(s) == IF s THEN "error" ELSE "warn"

rejectIfStrictOrResolve_AlwaysReject(s) == "rejected"
\* rejectIfStrictOrResolve: the state of the promise it creates
rejectIfStrictOrResolve(s) == IF s THEN "rejected" ELSE "resolved"

\* ------------------------------------------------------- environment
\* the template literal `${PATH}:${WIEX_PATH}`
PathTemplate(e) == TemplateString(e.PATH) \o <<":">> \o TemplateString(e.WIEX_PATH)

SpawnEnv_AssignsHost(e) ==
  [child |-> [e EXCEPT !.PATH = Str(PathTemplate(e))],
   host  |-> [e EXCEPT !.PATH = Str(PathTemplate(e))]]
\* { env: { ...process.env, PATH: `${PATH}:${WIEX_PATH}` } }: the spread
\* builds a new object for the child and leaves process.env as it was
SpawnEnv(e) ==
  [child |-> [e EXCEPT !.PATH = Str(PathTemplate(e))],
   host  |-> e]

\* ------------------------------------------------------------- runtime
ProcessExit1_OnlySetsCode ==
  /\ terminated' = terminated
  /\ exitCode' = 1
\* process.exit(1)
ProcessExit1 ==
  /\ terminated' = TRUE
  /\ exitCode' = 1

\* nothing written, nothing received
NoChunks == [out |-> <<>>, err |-> <<>>]

Init ==
  /\ env \in [PATH : PathValues, WIEX_PATH : WiexPathValues, HOME : {HomeValue}]
  /\ inheritedEnv = env
  /\ exitCode = Null
  /\ terminated = FALSE
  /\ unhandledRejections \in RejectionModes
  /\ invocations = 0
  /\ command = "cargo.exe"
  /\ strict = FALSE
  /\ verbose = FALSE
  /\ promise = "none"
  /\ lookup = "none"
  /\ proc = "none"
  /\ pid = 0
  /\ childEnv = env
  /\ exited = FALSE
  /\ disconnected = FALSE
  /\ closed = FALSE
  /\ log = <<>>
  /\ detached = <<>>
  /\ handled = <<>>
  /\ setup = <<>>
  /\ written = NoChunks
  /\ sink = NoChunks
  /\ pair = [on |-> FALSE]
  /\ argv = <<>>
  /\ cli = [state |-> "idle"]

\* the previous call has nothing left in flight
CallComplete == invocations = 0 \/ (lookup = "closed" /\ closed)

\* wiex(): the synchronous body.  whereThrows: spawn of the lookup throws.
WiexCall(cmd, s, v, whereThrows, newPid) ==
  LET warned == IF Falsy(env.WIEX_PATH)
                  THEN <<Line("warn", WiexPathNotSetMessage)>> ELSE <<>>
  IN
  /\ ~terminated
  /\ invocations < MaxInvocations
  /\ CallComplete
  /\ invocations' = invocations + 1
  /\ command' = cmd
  /\ strict' = s
  /\ verbose' = v
  /\ exited' = FALSE
  /\ disconnected' = FALSE
  /\ closed' = FALSE
  /\ detached' = <<>>
  /\ written' = NoChunks
  /\ sink' = NoChunks
  /\ setup' = (IF warned = <<>> THEN <<>> ELSE <<"warn">>)
                 \o (IF whereThrows
                       THEN <<"spawn-where-throws", "error", "process.exit">>
                       ELSE <<"spawn-where", "where.on", "spawn-proc", "pipe", "proc.on">>)
  /\ UNCHANGED <<inheritedEnv, unhandledRejections, pair, argv>>
  /\ IF whereThrows
       THEN /\ log' = warned \o <<Line("error", commandNotExistErrorMessage(cmd))>>
            /\ ProcessExit1
            /\ handled' = <<Event("lookup-throw", Null)>>
            /\ promise' = "pending"
            /\ lookup' = "none"
            /\ proc' = "none"
            /\ UNCHANGED <<env, pid, childEnv>>
       ELSE /\ log' = warned
            /\ handled' = <<>>
            /\ lookup' = "running"
            /\ proc' = "running"
            /\ pid' = newPid
            /\ childEnv' = SpawnEnv(env).child
            /\ env' = SpawnEnv(env).host
            /\ promise' = "resolved"
            /\ UNCHANGED <<exitCode, terminated>>

\* wiex() called through the module's export
Wiex(cmd, s, v, whereThrows, newPid) ==
  /\ WiexCall(cmd, s, v, whereThrows, newPid)
  /\ UNCHANGED cli

LookupFailed_NullIsSuccess(code) == code > 0
LookupFailed_ZeroFails(code) == code = Null \/ code >= 0
\* the test of where.on('close'): code === null || code > 0
LookupFailed(code) == code = Null \/ code > 0

LookupSuccessLines_Closed(v, p) == IF v THEN <<Line("info", ClosedMessage(p))>> ELSE <<>>
\* the lines the lookup's close handler logs when the test fails: none
LookupSuccessLines(v, p) == <<>>

\* where.on('close', (code) => ...)
LookupClose(code) ==
  /\ ~terminated
  /\ lookup = "running"
  /\ lookup' = "closed"
  /\ handled' = Append(handled, Event("lookup-close", code))
  /\ IF LookupFailed(code)
       THEN /\ log' = Append(log, Line("error", commandNotExistErrorMessage(command)))
            /\ ProcessExit1
       ELSE /\ log' = log \o LookupSuccessLines(verbose, pid)
            /\ UNCHANGED <<exitCode, terminated>>
  /\ UNCHANGED <<hostVars, callVars, promise, proc, exited, disconnected, closed, detached>>
  /\ UNCHANGED <<relayVars, sideVars>>

\* where.on('error', () => ...)
LookupError ==
  /\ ~terminated
  /\ lookup = "running"
  /\ lookup' = "closed"
  /\ handled' = Append(handled, Event("lookup-error", Null))
  /\ log' = Append(log, Line("error", commandNotExistErrorMessage(command)))
  /\ ProcessExit1
  /\ UNCHANGED <<hostVars, callVars, promise, proc, exited, disconnected, closed, detached>>
  /\ UNCHANGED <<relayVars, sideVars>>

\* the two ambiguous outcomes: logger.errorIfStrictOrWarn(message) followed
\* by rejectIfStrictOrResolve(); the promise it returns is kept by nobody
Ambiguous(ev, message) ==
  /\ log' = Append(log, Line(errorIfStrictOrWarn(strict), message))
  /\ detached' = Append(detached, [by |-> ev, state |-> rejectIfStrictOrResolve(strict)])
  /\ IF rejectIfStrictOrResolve(strict) = "rejected" /\ unhandledRejections = "throw"
       THEN ProcessExit1
       ELSE UNCHANGED <<exitCode, terminated>>

CodeKnown_Truthy(code) == code # Null /\ code # 0
\* the test of proc.on('exit'): code !== null
CodeKnown(code) == code # Null

\* proc.on('exit', (code) => ...)
ProcExit(code) ==
  /\ ~terminated
  /\ proc = "running"
  /\ ~exited
  /\ exited' = TRUE
  /\ handled' = Append(handled, Event("exit", code))
  /\ IF CodeKnown(code)
       THEN /\ exitCode' = code
            /\ detached' = Append(detached, [by |-> Event("exit", code), state |-> "resolved"])
            /\ UNCHANGED <<log, terminated>>
       ELSE Ambiguous(Event("exit", code), ExitCodeUnknownMessage)
  /\ UNCHANGED <<hostVars, callVars, promise, lookup, proc, disconnected, closed>>
  /\ UNCHANGED <<relayVars, sideVars>>

\* proc.on('disconnect', () => ...)
ProcDisconnect ==
  /\ ~terminated
  /\ proc = "running"
  /\ ~disconnected
  /\ disconnected' = TRUE
  /\ handled' = Append(handled, Event("disconnect", Null))
  /\ Ambiguous(Event("disconnect", Null), DisconnectedMessage(pid))
  /\ UNCHANGED <<hostVars, callVars, promise, lookup, proc, exited, closed>>
  /\ UNCHANGED <<relayVars, sideVars>>

\* ---------------------------------------------------------------- relay
Streams == {"out", "err"}
\* the i-th chunk the child writes to stream st
Chunk(st, i) == <<st, i>>

\* proc.stdout.pipe(outStream); proc.stderr.pipe(errStream)
PipeTarget(st) == st

\* number of chunks of the child's stream st that have reached a sink
Relayed(st) ==
  Cardinality({i \in 1..Len(sink[PipeTarget(st)]) : sink[PipeTarget(st)][i][1] = st})

\* the child writes one more chunk to its stdout or stderr
ChildWrite(st) ==
  /\ ~terminated
  /\ proc = "running"
  /\ ~exited
  /\ Len(written[st]) < MaxChunks
  /\ written' = [written EXCEPT ![st] = Append(@, Chunk(st, Len(@) + 1))]
  /\ UNCHANGED <<hostVars, callVars, exitCode, terminated, promise, lookup, proc,
                 exited, disconnected, closed, log, detached, handled, sink, sideVars>>

\* the pipe forwards the oldest chunk not yet forwarded to its sink
Relay(st) ==
  /\ ~terminated
  /\ proc = "running"
  /\ Relayed(st) < Len(written[st])
  /\ sink' = [sink EXCEPT ![PipeTarget(st)] = Append(@, written[st][Relayed(st) + 1])]
  /\ UNCHANGED <<hostVars, callVars, exitCode, terminated, promise, lookup, proc,
                 exited, disconnected, closed, log, detached, handled, written, sideVars>>

CloseLines_Always(v, p) == <<Line("info", ClosedMessage(p))>>
\* the lines the close handler logs: if (verbose) logger.info(...)
CloseLines(v, p) == IF v THEN <<Line("info", ClosedMessage(p))>> ELSE <<>>

\* proc.on('close', () => ...); the runtime emits 'close' after 'exit' and
\* after the child's stdio streams have ended, that is once all is relayed
ProcClose ==
  /\ ~terminated
  /\ proc = "running"
  /\ exited
  /\ ~closed
  /\ \A st \in Streams : Relayed(st) = Len(written[st])
  /\ closed' = TRUE
  /\ handled' = Append(handled, Event("close", Null))
  /\ log' = log \o CloseLines(verbose, pid)
  /\ UNCHANGED <<hostVars, callVars, exitCode, terminated, promise, lookup, proc,
                 exited, disconnected, detached>>
  /\ UNCHANGED <<relayVars, sideVars>>

\* the child fails to launch: 'error' is emitted on proc, which has no
\* 'error' listener, so the runtime throws and the host ends with status 1
ProcError ==
  /\ ~terminated
  /\ proc = "running"
  /\ ~exited
  /\ ~disconnected
  /\ written = NoChunks
  /\ handled' = Append(handled, Event("error", Null))
  /\ ProcessExit1
  /\ UNCHANGED <<hostVars, callVars, promise, lookup, proc, exited, disconnected,
                 closed, log, detached>>
  /\ UNCHANGED <<relayVars, sideVars>>

Next ==
  \/ \E cmd \in Commands, s \in BOOLEAN, v \in BOOLEAN, t \in BOOLEAN, p \in Pids :
       Wiex(cmd, s, v, t, p)
  \/ \E code \in ExitCodes \cup {Null} : LookupClose(code)
  \/ LookupError
  \/ \E code \in ExitCodes \cup {Null} : ProcExit(code)
  \/ ProcDisconnect
  \/ ProcClose
  \/ ProcError

Spec == Init /\ [][Next]_vars

\* ------------------------------------------------------------------ cli
\* const WIEX_OPTIONS = new Set([...])
WIEX_OPTIONS == {"--version", "--strict", "--verbose", "--help"}
\* number of command-line arguments explored
MaxArgs == 3
Tokens == WIEX_OPTIONS \cup {"cargo.exe", "build"}
ArgLists == UNION {[1..n -> Tokens] : n \in 0..MaxArgs}

\* const { version } = require('./package.json')
version == "1.0.0"
VersionLine == "v" \o version
helpText == "wiex: Windows Invoke Expression for WSL2"

\* the computed key of { ...wiexArgs, [arg]: true }: the argument itself
OptionKey(arg) == arg

CommandArgs_FromCommand(args, index) == SubSeq(args, index, Len(args))
\* args.slice(index + 1), index being the position of the command
CommandArgs(args, index) == SubSeq(args, index + 1, Len(args))

\* arr.splice(1): only the first element stays in the array being reduced
Splice1(arr) == SubSeq(arr, 1, 1)

\* the reduce callback applied from position index on: acc is the value
\* returned last, arr the array being reduced, args the untouched argument
\* list.  An unset command or commandArgs is the empty sequence, the command
\* a one-element sequence, wiexArgs the set of keys set to true.
RECURSIVE Reduce(_, _, _, _)
Reduce(acc, arr, index, args) ==
  IF index > Len(arr)
    THEN acc
    ELSE IF arr[index] \in WIEX_OPTIONS
      THEN Reduce([wiexArgs |-> acc.wiexArgs \cup {OptionKey(arr[index])},
                   command |-> <<>>, commandArgs |-> <<>>],
                  arr, index + 1, args)
      ELSE Reduce([wiexArgs |-> acc.wiexArgs,
                   command |-> <<arr[index]>>, commandArgs |-> CommandArgs(args, index)],
                  Splice1(arr), index + 1, args)

\* [...args].reduce(callback, {})
ParseArgs(args) ==
  Reduce([wiexArgs |-> {}, command |-> <<>>, commandArgs |-> <<>>], args, 1, args)

\* cli(): parse argv, then print the version, print the help, or call wiex()
Cli ==
  LET parsed == ParseArgs(argv) IN
  /\ ~terminated
  /\ cli.state = "idle"
  /\ invocations = 0
  /\ IF "version" \in parsed.wiexArgs
       THEN /\ cli' = [state |-> "version", console |-> <<VersionLine>>, parsed |-> parsed]
            /\ terminated' = TRUE
            /\ exitCode' = 0
            /\ UNCHANGED <<hostVars, callVars, promise, lookup, proc, exited, disconnected,
                           closed, log, detached, handled, relayVars, setup, pair, argv>>
       ELSE IF "help" \in parsed.wiexArgs \/ parsed.command = <<>>
         THEN /\ cli' = [state |-> "help", console |-> <<helpText>>, parsed |-> parsed]
              /\ terminated' = TRUE
              /\ exitCode' = IF exitCode = Null THEN 0 ELSE exitCode
              /\ UNCHANGED <<hostVars, callVars, promise, lookup, proc, exited, disconnected,
                             closed, log, detached, handled, relayVars, setup, pair, argv>>
         ELSE /\ cli' = [state |-> "wiex", console |-> <<>>, parsed |-> parsed]
              /\ \E t \in BOOLEAN, p \in Pids :
                   WiexCall(parsed.command[1], "strict" \in parsed.wiexArgs,
                            "verbose" \in parsed.wiexArgs, t, p)

\* the tool started with some command line, in one environment
InitCli ==
  /\ env = [PATH |-> Str(<<"a">>), WIEX_PATH |-> Str(<<"w">>), HOME |-> HomeValue]
  /\ inheritedEnv = env
  /\ exitCode = Null
  /\ terminated = FALSE
  /\ unhandledRejections \in RejectionModes
  /\ invocations = 0
  /\ command = "cargo.exe"
  /\ strict = FALSE
  /\ verbose = FALSE
  /\ promise = "none"
  /\ lookup = "none"
  /\ proc = "none"
  /\ pid = 0
  /\ childEnv = env
  /\ exited = FALSE
  /\ disconnected = FALSE
  /\ closed = FALSE
  /\ log = <<>>
  /\ detached = <<>>
  /\ handled = <<>>
  /\ setup = <<>>
  /\ written = NoChunks
  /\ sink = NoChunks
  /\ pair = [on |-> FALSE]
  /\ argv \in ArgLists
  /\ cli = [state |-> "idle"]

NextCli ==
  \/ Cli
  \/ \E code \in ExitCodes \cup {Null} : LookupClose(code)
  \/ LookupError
  \/ \E code \in ExitCodes \cup {Null} : ProcExit(code)
  \/ ProcDisconnect
  \/ ProcClose
  \/ ProcError

SpecCli == InitCli /\ [][NextCli]_vars

\* --------------------------------------------- a strict and a lenient run
\* The state one run of wiex() leaves behind: what the call and its handlers
\* write, as a value, so that two runs can be fed the same events.

\* the synchronous body of wiex()
RunStart(cmd, whereThrows) ==
  LET warned == IF Falsy(env.WIEX_PATH)
                  THEN <<Line("warn", WiexPathNotSetMessage)>> ELSE <<>>
  IN IF whereThrows
       THEN [log |-> warned \o <<Line("error", commandNotExistErrorMessage(cmd))>>,
             exitCode |-> 1, terminated |-> TRUE, promise |-> "pending",
             detached |-> <<>>, sink |-> NoChunks]
       ELSE [log |-> warned,
             exitCode |-> Null, terminated |-> FALSE, promise |-> "resolved",
             detached |-> <<>>, sink |-> NoChunks]

\* logger.error(commandNotExistErrorMessage); process.exit(1)
RunNotFound(run, cmd) ==
  [run EXCEPT !.log = Append(@, Line("error", commandNotExistErrorMessage(cmd))),
              !.exitCode = 1,
              !.terminated = TRUE]

\* logger.errorIfStrictOrWarn(message); rejectIfStrictOrResolve()
RunAmbiguous(run, s, e, message) ==
  LET crash == rejectIfStrictOrResolve(s) = "rejected" /\ unhandledRejections = "throw"
  IN [run EXCEPT !.log = Append(@, Line(errorIfStrictOrWarn(s), message)),
                 !.detached = Append(@, [by |-> e, state |-> rejectIfStrictOrResolve(s)]),
                 !.exitCode = IF crash THEN 1 ELSE @,
                 !.terminated = crash]

\* the handler of event e run in a call made with strict = s; c holds the
\* call's command, verbose and pid.  A host that has ended handles nothing.
RunHandle(run, s, c, e) ==
  IF run.terminated THEN run
  ELSE CASE e.ev = "lookup-close" ->
              IF LookupFailed(e.code)
                THEN RunNotFound(run, c.command)
                ELSE [run EXCEPT !.log = @ \o LookupSuccessLines(c.verbose, c.pid)]
         [] e.ev = "lookup-error" -> RunNotFound(run, c.command)
         [] e.ev = "exit" ->
              IF CodeKnown(e.code)
                THEN [run EXCEPT !.exitCode = e.code,
                                 !.detached = Append(@, [by |-> e, state |-> "resolved"])]
                ELSE RunAmbiguous(run, s, e, ExitCodeUnknownMessage)
         [] e.ev = "disconnect" -> RunAmbiguous(run, s, e, DisconnectedMessage(c.pid))
         [] e.ev = "close" -> [run EXCEPT !.log = @ \o CloseLines(c.verbose, c.pid)]
         [] e.ev = "error" -> [run EXCEPT !.exitCode = 1, !.terminated = TRUE]
         [] e.ev = "data-out" ->
              [run EXCEPT !.sink[PipeTarget("out")] = Append(@, Chunk("out", e.code))]
         [] e.ev = "data-err" ->
              [run EXCEPT !.sink[PipeTarget("err")] = Append(@, Chunk("err", e.code))]

\* the same call made twice, once strict and once lenient
PairStart(cmd, v, whereThrows, newPid) ==
  /\ ~pair.on
  /\ pair' = [on |-> TRUE,
              call |-> [command |-> cmd, verbose |-> v, pid |-> newPid],
              spawned |-> ~whereThrows,
              seen |-> {},
              data |-> [out |-> 0, err |-> 0],
              S |-> RunStart(cmd, whereThrows),
              L |-> RunStart(cmd, whereThrows)]
  /\ UNCHANGED <<hostVars, callVars, exitCode, terminated, promise, lookup, proc,
                 exited, disconnected, closed, log, detached, handled, relayVars,
                 setup, argv, cli>>

\* the events of the pair's lookup and child so far
PairSeen(ev) == ev \in pair.seen
\* the stream a data event belongs to
DataStream(ev) == IF ev = "data-out" THEN "out" ELSE "err"
PairData(ev) == pair.data[DataStream(ev)]

\* the runtime can deliver event e next (same order rules as for the actions)
PairCanDeliver(e) ==
  CASE e.ev \in {"lookup-close", "lookup-error"} ->
         ~PairSeen("lookup-close") /\ ~PairSeen("lookup-error")
    [] e.ev = "exit" -> ~PairSeen("exit")
    [] e.ev = "disconnect" -> ~PairSeen("disconnect")
    [] e.ev = "close" -> PairSeen("exit") /\ ~PairSeen("close")
    [] e.ev = "error" ->
         /\ ~PairSeen("exit") /\ ~PairSeen("disconnect")
         /\ PairData("data-out") = 0 /\ PairData("data-err") = 0
    [] e.ev \in {"data-out", "data-err"} ->
         ~PairSeen("close") /\ e.code = PairData(e.ev) + 1 /\ e.code <= MaxChunks

\* events of the lookup and of the child
PairEvents ==
  {Event("lookup-close", c) : c \in ExitCodes \cup {Null}}
    \cup {Event("exit", c) : c \in ExitCodes \cup {Null}}
    \cup {Event(ev, Null) : ev \in {"lookup-error", "disconnect", "close", "error"}}
    \cup {Event(ev, n) : ev \in {"data-out", "data-err"}, n \in 1..MaxChunks}

\* one event, handled by both runs
PairEvent(e) ==
  /\ pair.on
  /\ pair.spawned
  /\ ~(pair.S.terminated /\ pair.L.terminated)
  /\ ~PairSeen("error")
  /\ PairCanDeliver(e)
  /\ pair' = [pair EXCEPT !.seen = @ \cup {e.ev},
                          !.data = IF e.ev \in {"data-out", "data-err"}
                                     THEN [@ EXCEPT ![DataStream(e.ev)] = e.code] ELSE @,
                          !.S = RunHandle(@, TRUE, pair.call, e),
                          !.L = RunHandle(@, FALSE, pair.call, e)]
  /\ UNCHANGED <<hostVars, callVars, exitCode, terminated, promise, lookup, proc,
                 exited, disconnected, closed, log, detached, handled, relayVars,
                 setup, argv, cli>>

NextPair ==
  \/ \E cmd \in Commands, v \in BOOLEAN, t \in BOOLEAN, p \in Pids : PairStart(cmd, v, t, p)
  \/ \E e \in PairEvents : PairEvent(e)

SpecPair == Init /\ [][NextPair]_vars

\* one invocation together with the child's output and its relay
NextRelay ==
  \/ \E cmd \in Commands, s \in BOOLEAN, v \in BOOLEAN, t \in BOOLEAN, p \in Pids :
       invocations = 0 /\ Wiex(cmd, s, v, t, p)
  \/ \E code \in ExitCodes \cup {Null} : LookupClose(code)
  \/ LookupError
  \/ \E code \in ExitCodes \cup {Null} : ProcExit(code)
  \/ ProcDisconnect
  \/ ProcClose
  \/ ProcError
  \/ \E st \in Streams : ChildWrite(st)
  \/ \E st \in Streams : Relay(st)

SpecRelay == Init /\ [][NextRelay]_vars

\* ------------------------------------------------------------------
\* Vocabulary of the properties
\* ------------------------------------------------------------------
IsAmbiguous(e) == e.ev = "disconnect" \/ (e.ev = "exit" /\ e.code = Null)
IsTerminalEvent(e) == e.ev \in {"exit", "disconnect"}
IsLookupFailure(e) ==
  \/ e.ev \in {"lookup-error", "lookup-throw"}
  \/ e.ev = "lookup-close" /\ (e.code = Null \/ e.code > 0)
AmbiguousMessage(e) ==
  IF e.ev = "disconnect" THEN DisconnectedMessage(pid) ELSE ExitCodeUnknownMessage

Handled(P(_)) == \E i \in 1..Len(handled) : P(handled[i])
Logged(line) == \E i \in 1..Len(log) : log[i] = line
Count(line) == Cardinality({i \in 1..Len(log) : log[i] = line})
SomeRejection == \E i \in 1..Len(detached) : detached[i].state = "rejected"
\* this step creates no rejected promise
NoNewRejection ==
  \A i \in 1..Len(detached') :
    detached'[i].state = "rejected" => (i <= Len(detached) /\ detached[i] = detached'[i])

\* this step is the handling of one event, which becomes the last of handled'
Handles(P(_)) ==
  /\ handled' # handled
  /\ handled' # <<>>
  /\ P(handled'[Len(handled')])
JustHandled == handled'[Len(handled')]

\* C1: in strict mode, once the child has ended ambiguously (exit with a null
\* code, or disconnect) the promise returned by wiex() is rejected and the
\* message of that event is logged at error level and never at warn level.
C1_StrictAmbiguousRejects ==
  \A i \in 1..Len(handled) :
    (strict /\ IsAmbiguous(handled[i])) =>
      /\ promise = "rejected"
      /\ Logged(Line("error", AmbiguousMessage(handled[i])))
      /\ ~Logged(Line("warn", AmbiguousMessage(handled[i])))

\* C2: the promise returned by wiex() is settled only by the child's
\* lifecycle handlers: while no exit or disconnect event has been handled it
\* is not settled.
C2_PendingUntilTerminalEvent ==
  promise \in {"resolved", "rejected"} => Handled(IsTerminalEvent)

\* C3: when the lookup completes with a non-zero or null status, fails to
\* launch or throws, the line `Error: {command} not found` is logged once at
\* error level as the last line and the host terminates with status 1, for
\* every strict/verbose and whatever the child's handlers did before; and
\* nothing changes once the host has terminated.
C3_LookupFailureTerminates ==
  /\ [](Handled(IsLookupFailure) =>
          /\ terminated
          /\ exitCode = 1
          /\ Count(Line("error", commandNotExistErrorMessage(command))) = 1
          /\ log # <<>>
          /\ log[Len(log)] = Line("error", commandNotExistErrorMessage(command))
          /\ IsLookupFailure(handled[Len(handled)]))
  /\ [][~terminated]_vars

\* the lookup fails after the child's exit handler had set another status
C3_Witness ==
  /\ Handled(IsLookupFailure)
  /\ Handled(LAMBDA e : e.ev = "exit" /\ e.code = 3)
  /\ strict /\ verbose
  /\ terminated

\* C4: the handling of an exit event with a non-null code c sets the host
\* exit status to c, leaves the call settled successfully, in strict and in
\* lenient mode, and logs nothing and rejects nothing.
C4_ExitCodePropagated ==
  [][Handles(LAMBDA e : e.ev = "exit" /\ e.code # Null) =>
       /\ exitCode' = JustHandled.code
       /\ promise' = "resolved"
       /\ log' = log
       /\ NoNewRejection
       /\ ~terminated']_vars

\* the lookup succeeded and the child exited with code 3 in strict mode
C4_Witness ==
  /\ strict
  /\ Handled(LAMBDA e : e.ev = "lookup-close" /\ e.code = 0)
  /\ Handled(LAMBDA e : e.ev = "exit" /\ e.code = 3)
  /\ exitCode = 3
  /\ promise = "resolved"

\* C5: in lenient mode the handling of an ambiguous end (exit with a null
\* code, or disconnect) logs the message at warn level, leaves the call
\* settled successfully and leaves the host exit status as it was.
C5_LenientAmbiguousWarns ==
  [][(~strict /\ Handles(IsAmbiguous)) =>
       /\ log' = Append(log, Line("warn", AmbiguousMessage(JustHandled)))
       /\ promise' = "resolved"
       /\ NoNewRejection
       /\ exitCode' = exitCode
       /\ ~terminated']_vars

\* a lenient disconnect after the exit handler had set status 3
C5_Witness ==
  /\ ~strict
  /\ Len(handled) >= 2
  /\ handled[1] = Event("exit", 3)
  /\ handled[2] = Event("disconnect", Null)
  /\ exitCode = 3
  /\ Logged(Line("warn", DisconnectedMessage(pid)))
\* C6: once an exit or disconnect event of the child has been handled, the
\* handling of a later exit or disconnect event of the same child logs
\* nothing, settles nothing and leaves the host exit status as it was.
C6_SingleTerminalOutcome ==
  [][(Handled(IsTerminalEvent) /\ Handles(IsTerminalEvent)) =>
       /\ log' = log
       /\ detached' = detached
       /\ promise' = promise
       /\ exitCode' = exitCode]_vars

\* C7: a rejection exists only in strict mode and only for an ambiguous
\* terminal event (exit with a null code, or disconnect): the call's promise
\* is rejected only then, and no promise rejected by a handler comes from an
\* exit event with a non-null code.
C7_RejectionOnlyStrictAmbiguous ==
  /\ promise = "rejected" => (strict /\ Handled(IsAmbiguous))
  /\ \A i \in 1..Len(detached) :
       detached[i].state = "rejected" => (strict /\ IsAmbiguous(detached[i].by))

\* strict mode, the child exited with code 0, and nothing is rejected
C7_Witness ==
  /\ strict
  /\ Handled(LAMBDA e : e.ev = "exit" /\ e.code = 0)
  /\ promise = "resolved"
  /\ ~SomeRejection

\* C8: the handling of the child's close event settles nothing and leaves
\* the host exit status as it was; it logs exactly the info line
\* `process {pid} closed.` when verbose is set and nothing otherwise.
C8_CloseOnlyLogs ==
  [][Handles(LAMBDA e : e.ev = "close") =>
       /\ promise' = promise
       /\ detached' = detached
       /\ exitCode' = exitCode
       /\ terminated' = terminated
       /\ log' = IF verbose THEN Append(log, Line("info", ClosedMessage(pid))) ELSE log]_vars

\* a close handled without verbose has logged nothing at info level
C8_Witness ==
  /\ ~verbose
  /\ Handled(LAMBDA e : e.ev = "close")
  /\ \A i \in 1..Len(log) : log[i].level # "info"

\* the search entries of a PATH string: its pieces between separators
RECURSIVE Entries(_)
Entries(s) ==
  IF \E i \in 1..Len(s) : s[i] = ":"
    THEN LET k == CHOOSE i \in 1..Len(s) : s[i] = ":" /\ \A j \in 1..(i - 1) : s[j] # ":"
         IN {SubSeq(s, 1, k - 1)} \cup Entries(SubSeq(s, k + 1, Len(s)))
    ELSE {s}

\* the augmentation value: WIEX_PATH, empty when the variable is unset
AugmentationValue(e) == IF e.WIEX_PATH.t = "undefined" THEN <<>> ELSE e.WIEX_PATH.s

\* C9: the child's environment is the inherited environment with PATH
\* replaced by inheritedPath, the separator and the augmentation value; with
\* WIEX_PATH unset the augmentation is empty and the child's PATH names no
\* entry beyond those of the inherited PATH.
C9_ChildPathAugmented ==
  (proc = "running" /\ inheritedEnv.PATH.t = "string") =>
    /\ childEnv = [inheritedEnv EXCEPT
                     !.PATH = Str(inheritedEnv.PATH.s \o <<":">> \o AugmentationValue(inheritedEnv))]
    /\ inheritedEnv.WIEX_PATH.t = "undefined" =>
         Entries(childEnv.PATH.s) \subseteq (Entries(inheritedEnv.PATH.s) \cup {<<>>})

\* C10: no invocation changes the host's environment: process.env always
\* equals its value at start, and every spawned child's PATH is derived
\* from that unmodified value.
C10_HostEnvUntouched ==
  /\ env = inheritedEnv
  /\ proc = "running" =>
       childEnv = [inheritedEnv EXCEPT !.PATH = Str(PathTemplate(inheritedEnv))]

\* the child of a second invocation has been spawned
C10_Witness ==
  /\ invocations = 2
  /\ proc = "running"
  /\ inheritedEnv.WIEX_PATH = Str(<<"w">>)
  /\ childEnv.PATH = Str(TemplateString(inheritedEnv.PATH) \o <<":", "w">>)
\* s is an initial part of t
IsPrefix(s, t) == Len(s) <= Len(t) /\ SubSeq(t, 1, Len(s)) = s
LookupSucceeded == Handled(LAMBDA e : e.ev = "lookup-close" /\ e.code = 0)

\* C11: each sink always holds an initial part of what the child wrote to
\* the matching stream, in order and with no chunk of the other stream, and
\* when the lookup succeeded the sink holds everything the child wrote by the
\* time the run is over (the child has closed or the host has ended),
\* whatever the terminal outcome was.
C11_StreamFidelity ==
  /\ \A st \in Streams : IsPrefix(sink[st], written[st])
  /\ (LookupSucceeded /\ (closed \/ terminated)) => sink = written

\* C16: when the lookup has failed, no chunk written by the child has been
\* relayed to the stdout sink or to the stderr sink.
C16_NoOutputOnResolutionFailure ==
  Handled(IsLookupFailure) => sink = NoChunks
\* the synchronous body of the current call took this step
Did(step) == \E i \in 1..Len(setup) : setup[i] = step
ClosedLine == Line("info", ClosedMessage(pid))

WiexPathNotSetLine == Line("warn", WiexPathNotSetMessage)

\* C18 as stated: with WIEX_PATH unset or empty the warn line is logged
\* exactly once, as the first step of the call, and the child is spawned;
\* with WIEX_PATH set to a non-empty value the line is never logged.
C18_WarnAndChildSpawned ==
  invocations > 0 =>
    IF inheritedEnv.WIEX_PATH.t = "undefined" \/ inheritedEnv.WIEX_PATH.s = <<>>
      THEN /\ Count(WiexPathNotSetLine) = 1
           /\ log[1] = WiexPathNotSetLine
           /\ setup[1] = "warn"
           /\ Did("spawn-proc")
      ELSE /\ Count(WiexPathNotSetLine) = 0
           /\ ~Did("warn")

\* C18 amended: with WIEX_PATH unset or empty the warn line is logged exactly
\* once, as the first step of the call, and the call goes on to launch the
\* lookup; the child is spawned unless that launch throws; with WIEX_PATH set
\* to a non-empty value the line is never logged.
C18_WarnAndProceed ==
  invocations > 0 =>
    IF inheritedEnv.WIEX_PATH.t = "undefined" \/ inheritedEnv.WIEX_PATH.s = <<>>
      THEN /\ Count(WiexPathNotSetLine) = 1
           /\ log[1] = WiexPathNotSetLine
           /\ setup[1] = "warn"
           /\ Did("spawn-where") \/ Did("spawn-where-throws")
           /\ Did("spawn-proc") <=> ~Did("spawn-where-throws")
      ELSE /\ Count(WiexPathNotSetLine) = 0
           /\ ~Did("warn")

\* WIEX_PATH is the empty string, the line was logged and the child spawned
C18_Witness ==
  /\ invocations > 0
  /\ inheritedEnv.WIEX_PATH = Str(<<>>)
  /\ Count(WiexPathNotSetLine) = 1
  /\ Did("spawn-proc")
  /\ proc = "running"

\* C19: the handling of the lookup's close event with status zero logs
\* nothing, leaves the host exit status as it was, does not terminate the
\* host and settles nothing.
C19_LookupSuccessSilent ==
  [][Handles(LAMBDA e : e.ev = "lookup-close" /\ e.code = 0) =>
       /\ log' = log
       /\ exitCode' = exitCode
       /\ terminated' = terminated
       /\ promise' = promise
       /\ detached' = detached]_vars

\* the lookup succeeded after the child's exit handler had set status 3
C19_Witness ==
  /\ handled # <<>>
  /\ handled[Len(handled)] = Event("lookup-close", 0)
  /\ exitCode = 3
  /\ ~terminated

\* C20: if launching the lookup throws, the not-found error is logged and the
\* host terminates with status 1 with no child spawned, no pipe and no
\* handler attached and no child event ever handled; in every other call the
\* child is spawned in the same step, while the lookup is still running.
C20_LookupThrowStopsBeforeSpawn ==
  /\ [](invocations > 0 =>
          IF Did("spawn-where-throws")
            THEN /\ terminated
                 /\ exitCode = 1
                 /\ Logged(Line("error", commandNotExistErrorMessage(command)))
                 /\ proc = "none"
                 /\ ~Did("spawn-proc") /\ ~Did("pipe") /\ ~Did("proc.on")
                 /\ handled = <<Event("lookup-throw", Null)>>
            ELSE /\ Did("spawn-proc")
                 /\ proc = "running")
  /\ [][(invocations' # invocations /\ ~Did("spawn-where-throws")') =>
          (lookup' = "running" /\ proc' = "running" /\ handled' = <<>>)]_vars

\* the lookup launch of a second call threw
C20_Witness ==
  /\ invocations = 2
  /\ Did("spawn-where-throws")
  /\ terminated
  /\ proc = "none"
\* position of the first argument that is not a tool flag, 0 if there is none
CommandIndex(args) ==
  IF \A i \in 1..Len(args) : args[i] \in WIEX_OPTIONS
    THEN 0
    ELSE CHOOSE i \in 1..Len(args) :
           args[i] \notin WIEX_OPTIONS /\ \A j \in 1..(i - 1) : args[j] \in WIEX_OPTIONS
\* the tool flag precedes the target command (or no command is given)
FlagGiven(args, flag) ==
  \E i \in 1..Len(args) :
    args[i] = flag /\ (CommandIndex(args) = 0 \/ i < CommandIndex(args))

\* C13: when cli() has called wiex(), --strict before the command means the
\* call runs with strict true, so an ambiguous end is logged at error level,
\* and --verbose before the command means it runs with verbose true, so the
\* close event logs the info line.
C13_FlagsTurnOptionsOn ==
  cli.state = "wiex" =>
    /\ FlagGiven(argv, "--strict") =>
         /\ strict
         /\ \A i \in 1..Len(handled) :
              IsAmbiguous(handled[i]) => Logged(Line("error", AmbiguousMessage(handled[i])))
    /\ FlagGiven(argv, "--verbose") =>
         /\ verbose
         /\ Handled(LAMBDA e : e.ev = "close") => Logged(ClosedLine)

C15_VersionHelpSkipWiex ==
  (cli.state # "idle"
     /\ (FlagGiven(argv, "--version") \/ FlagGiven(argv, "--help") \/ CommandIndex(argv) = 0)) =>
    /\ terminated
    /\ invocations = 0
    /\ lookup = "none"
    /\ proc = "none"
    /\ cli.console = IF FlagGiven(argv, "--version") THEN <<VersionLine>> ELSE <<helpText>>
\* the message texts of a log, in order
Texts(lines) == [i \in 1..Len(lines) |-> lines[i].message]
\* the lines of a log that are not ambiguous-termination lines
Plain(lines) ==
  [i \in 1..Len(lines) |->
     IF lines[i].message \in {ExitCodeUnknownMessage, DisconnectedMessage(pair.call.pid)}
       THEN Line("-", lines[i].message) ELSE lines[i]]

\* C12: a strict and a lenient run of the same call fed the same events log
\* the same texts in the same order, with the same levels except on the
\* ambiguous-termination lines, set the same host exit status, end or go on
\* alike and relay the same output.
C12_StrictLenientAgree ==
  pair.on =>
    /\ Texts(pair.S.log) = Texts(pair.L.log)
    /\ Plain(pair.S.log) = Plain(pair.L.log)
    /\ pair.S.exitCode = pair.L.exitCode
    /\ pair.S.terminated = pair.L.terminated
    /\ pair.S.sink = pair.L.sink

====
